---- MODULE Spec2Model ----
(***************************************************************************)
(* Reflection token (contracts/qtum_reflection_token) and its treasury     *)
(* (contracts/qtum_treasury) as one state machine.                         *)
(*                                                                         *)
(* A step is the execution of one contract handler on one message.  A      *)
(* message is either submitted by a user (when no transaction is running)  *)
(* or is the next message emitted by an earlier handler of the running     *)
(* transaction; emitted messages run depth first, in order, and the        *)
(* failure of any of them reverts both stores to their values at the       *)
(* start of the transaction.  A handler that returns Err writes nothing.   *)
(***************************************************************************)
EXTENDS Integers, Sequences, FiniteSets, TLC

(***************************************************************************)
(* Bounds                                                                  *)
(***************************************************************************)
MaxAmount == 2
MaxTime == 3
MaxAllowance == 2
RateDen == 2

(***************************************************************************)
(* Addresses                                                               *)
(***************************************************************************)
Admin == "admin"
User == "user"
PairContract == "pairc"
ReflContract == "reflc"
Router == "router"
TokenAddr == "token"
TreasuryAddr == "treasury"
NoAddr == ""

Holders == {Admin, User, PairContract, TreasuryAddr}

\* deps.api.addr_validate: the empty string (an unset TREASURY read through
\* unwrap_or_default, or a malformed input) is rejected.
addr_validate(a) == a /= NoAddr

VARIABLES token, tstore, now, queue, saved, resp, triggers, tx_liquify

vars == <<token, tstore, now, queue, saved, resp, triggers, tx_liquify>>

(***************************************************************************)
(* Messages and handler results                                            *)
(***************************************************************************)
Msg(to, sender, kind, owner, recipient, amount, payload) ==
    [to |-> to, sender |-> sender, kind |-> kind, owner |-> owner,
     recipient |-> recipient, amount |-> amount, payload |-> payload,
     assets |-> <<>>, funds |-> <<>>]

Ok(tk, ts, msgs) == [ok |-> TRUE, err |-> "", token |-> tk, tstore |-> ts, msgs |-> msgs]

\* A handler that fails before it wrote anything.
Err(e) == [ok |-> FALSE, err |-> e, token |-> token, tstore |-> tstore, msgs |-> <<>>]

\* A handler that fails after it wrote tk to the token's storage.
ErrAfter(e, tk) == [ok |-> FALSE, err |-> e, token |-> tk, tstore |-> tstore, msgs |-> <<>>]

\* A treasury handler that fails after it wrote ts to the treasury's storage.
ErrAfterT(e, ts) == [ok |-> FALSE, err |-> e, token |-> token, tstore |-> ts, msgs |-> <<>>]

(***************************************************************************)
(* Token contract: arithmetic and queries                                  *)
(***************************************************************************)
\* The product rounded up instead of down (mutation of MulFloor).
MulFloor_RoundsUp(amount, rate) == (amount * rate + RateDen - 1) \div RateDen

\* Uint128 * Decimal: floor of the product; a rate r stands for r / RateDen.
MulFloor(amount, rate) == (amount * rate) \div RateDen

DecimalOne == RateDen

IsPair(tk, a) == IF a \in DOMAIN tk.pairlist THEN tk.pairlist[a] ELSE FALSE

\* query_tax with after_tax left at the full amount (mutation of query_tax).
query_tax_FullAmount(tk, amount) ==
    LET taxed_amount == MulFloor(amount, tk.tax_rate)
        reflection_amount == MulFloor(taxed_amount, tk.reflection_rate)
        burn_amount == MulFloor(taxed_amount, tk.burn_rate)
    IN [taxed_amount |-> taxed_amount, after_tax |-> amount,
        reflection_amount |-> reflection_amount,
        liquidity_amount |-> taxed_amount - reflection_amount - burn_amount]

query_tax(tk, amount) ==
    LET taxed_amount == MulFloor(amount, tk.tax_rate)
        after_tax == amount - taxed_amount
        reflection_amount == MulFloor(taxed_amount, tk.reflection_rate)
        burn_amount == MulFloor(taxed_amount, tk.burn_rate)
        liquidity_amount == taxed_amount - reflection_amount - burn_amount
    IN [taxed_amount |-> taxed_amount, after_tax |-> after_tax,
        reflection_amount |-> reflection_amount,
        liquidity_amount |-> liquidity_amount]

query_rate(tk) == <<tk.tax_rate, tk.reflection_rate, tk.burn_rate>>

Credit(bal, a, x) == [bal EXCEPT ![a] = @ + x]

\* cw20_base::allowances::deduct_allowance; -1 stands for "no entry".
NoAllowance == -1

deduct_allowance(tk, owner, spender, amount) ==
    LET cur == tk.allowances[<<owner, spender>>]
    IN IF cur = NoAllowance THEN [ok |-> FALSE, err |-> "NoAllowance", allowances |-> tk.allowances]
       ELSE IF cur < amount
       THEN [ok |-> FALSE, err |-> "Overflow: allowance", allowances |-> tk.allowances]
       ELSE [ok |-> TRUE, err |-> "",
             allowances |-> [tk.allowances EXCEPT ![<<owner, spender>>] = cur - amount]]

\* move_tokens with a wrapping instead of a checked balance decrement
\* (mutation of move_tokens).
move_tokens_Unchecked(tk, info_sender, debit, recipient, amount, is_pair) ==
    LET taxes == query_tax(tk, amount)
        outgoing_amount == IF is_pair THEN taxes.after_tax ELSE amount
        b2 == Credit([tk.balances EXCEPT ![debit] = @ - amount], recipient, outgoing_amount)
    IN IF ~is_pair
       THEN [ok |-> TRUE, err |-> "", balances |-> b2, messages |-> <<>>,
             outgoing_amount |-> outgoing_amount]
       ELSE IF ~addr_validate(tk.treasury)
       THEN [ok |-> FALSE, err |-> "InvalidAddress: treasury", balances |-> b2,
             messages |-> <<>>, outgoing_amount |-> 0]
       ELSE [ok |-> TRUE, err |-> "",
             balances |-> Credit(b2, tk.treasury, taxes.taxed_amount),
             messages |-> <<Msg(TokenAddr, TokenAddr, "transfer_event", info_sender,
                                tk.treasury, taxes.taxed_amount, "")>>,
             outgoing_amount |-> outgoing_amount]

\* move_tokens skipping the tax when TREASURY holds no valid address
\* (mutation of move_tokens).
move_tokens_TaxIfTreasury(tk, info_sender, debit, recipient, amount, is_pair) ==
    LET taxed == is_pair /\ addr_validate(tk.treasury)
        taxes == query_tax(tk, amount)
        outgoing_amount == IF taxed THEN taxes.after_tax ELSE amount
    IN IF tk.balances[debit] < amount
       THEN [ok |-> FALSE, err |-> "Overflow: balance", balances |-> tk.balances,
             messages |-> <<>>, outgoing_amount |-> 0]
       ELSE LET b1 == [tk.balances EXCEPT ![debit] = @ - amount]
                b2 == Credit(b1, recipient, outgoing_amount)
            IN IF ~taxed
               THEN [ok |-> TRUE, err |-> "", balances |-> b2, messages |-> <<>>,
                     outgoing_amount |-> outgoing_amount]
               ELSE [ok |-> TRUE, err |-> "",
                     balances |-> Credit(b2, tk.treasury, taxes.taxed_amount),
                     messages |-> <<Msg(TokenAddr, TokenAddr, "transfer_event", info_sender,
                                        tk.treasury, taxes.taxed_amount, "")>>,
                     outgoing_amount |-> outgoing_amount]

\* move_tokens crediting the recipient on the balances read before the
\* debit (mutation of move_tokens).
move_tokens_StaleCredit(tk, info_sender, debit, recipient, amount, is_pair) ==
    LET taxes == query_tax(tk, amount)
        outgoing_amount == IF is_pair THEN taxes.after_tax ELSE amount
        treasury == tk.treasury
    IN IF tk.balances[debit] < amount
       THEN [ok |-> FALSE, err |-> "Overflow: balance", balances |-> tk.balances,
             messages |-> <<>>, outgoing_amount |-> 0]
       ELSE LET b1 == [tk.balances EXCEPT ![debit] = @ - amount]
                b2 == [b1 EXCEPT ![recipient] = tk.balances[recipient] + outgoing_amount]
            IN IF ~is_pair
               THEN [ok |-> TRUE, err |-> "", balances |-> b2, messages |-> <<>>,
                     outgoing_amount |-> outgoing_amount]
               ELSE IF ~addr_validate(treasury)
               THEN [ok |-> FALSE, err |-> "InvalidAddress: treasury", balances |-> b2,
                     messages |-> <<>>, outgoing_amount |-> 0]
               ELSE [ok |-> TRUE, err |-> "",
                     balances |-> Credit(b2, treasury, taxes.taxed_amount),
                     messages |-> <<Msg(TokenAddr, TokenAddr, "transfer_event", info_sender,
                                        treasury, taxes.taxed_amount, "")>>,
                     outgoing_amount |-> outgoing_amount]

\* The debit / credit / tax tail that the four transfer handlers repeat:
\* debit `debit` by amount, credit the recipient with outgoing_amount and,
\* when is_pair, credit the treasury with taxed_amount and emit TransferEvent
\* naming info.sender as `from`.  On failure `balances` holds what had been
\* written before the failing step.
move_tokens(tk, info_sender, debit, recipient, amount, is_pair) ==
    LET taxes == query_tax(tk, amount)
        outgoing_amount == IF is_pair THEN taxes.after_tax ELSE amount
        treasury == tk.treasury
    IN IF tk.balances[debit] < amount
       THEN [ok |-> FALSE, err |-> "Overflow: balance", balances |-> tk.balances,
             messages |-> <<>>, outgoing_amount |-> 0]
       ELSE LET b1 == [tk.balances EXCEPT ![debit] = @ - amount]
                b2 == Credit(b1, recipient, outgoing_amount)
            IN IF ~is_pair
               THEN [ok |-> TRUE, err |-> "", balances |-> b2, messages |-> <<>>,
                     outgoing_amount |-> outgoing_amount]
               ELSE IF ~addr_validate(treasury)
               THEN [ok |-> FALSE, err |-> "InvalidAddress: treasury", balances |-> b2,
                     messages |-> <<>>, outgoing_amount |-> 0]
               ELSE [ok |-> TRUE, err |-> "",
                     balances |-> Credit(b2, treasury, taxes.taxed_amount),
                     messages |-> <<Msg(TokenAddr, TokenAddr, "transfer_event", info_sender,
                                        treasury, taxes.taxed_amount, "")>>,
                     outgoing_amount |-> outgoing_amount]

execute_transfer(tk, info_sender, recipient, amount) ==
    IF amount = 0 THEN Err("InvalidZeroAmount")
    ELSE LET is_pair == IsPair(tk, recipient) \/ IsPair(tk, info_sender)
         IN IF ~addr_validate(recipient) THEN Err("InvalidAddress")
            ELSE LET r == move_tokens(tk, info_sender, info_sender, recipient, amount, is_pair)
                     written == [tk EXCEPT !.balances = r.balances]
                 IN IF ~r.ok THEN ErrAfter(r.err, written)
                    ELSE Ok(written, tstore, r.messages)

execute_send(tk, info_sender, contract, amount, msg) ==
    IF amount = 0 THEN Err("InvalidZeroAmount")
    ELSE LET is_pair == IsPair(tk, contract) \/ IsPair(tk, info_sender)
         IN IF ~addr_validate(contract) THEN Err("InvalidAddress")
            ELSE LET r == move_tokens(tk, info_sender, info_sender, contract, amount, is_pair)
                     written == [tk EXCEPT !.balances = r.balances]
                 IN IF ~r.ok THEN ErrAfter(r.err, written)
                    ELSE Ok(written, tstore,
                            r.messages \o <<Msg(contract, TokenAddr, "receive", info_sender,
                                                NoAddr, r.outgoing_amount, msg)>>)

execute_transfer_from(tk, info_sender, owner, recipient, amount) ==
    LET is_pair == IsPair(tk, recipient) \/ IsPair(tk, info_sender)
    IN IF ~addr_validate(recipient) \/ ~addr_validate(owner) THEN Err("InvalidAddress")
       ELSE LET d == deduct_allowance(tk, owner, info_sender, amount)
            IN IF ~d.ok THEN Err(d.err)
               ELSE LET r == move_tokens(tk, info_sender, owner, recipient, amount, is_pair)
                        written == [tk EXCEPT !.balances = r.balances,
                                              !.allowances = d.allowances]
                    IN IF ~r.ok THEN ErrAfter(r.err, written)
                       ELSE Ok(written, tstore, r.messages)

execute_send_from(tk, info_sender, owner, contract, amount, msg) ==
    LET is_pair == IsPair(tk, contract) \/ IsPair(tk, info_sender)
    IN IF ~addr_validate(contract) \/ ~addr_validate(owner) THEN Err("InvalidAddress")
       ELSE LET d == deduct_allowance(tk, owner, info_sender, amount)
            IN IF ~d.ok THEN Err(d.err)
               ELSE LET r == move_tokens(tk, info_sender, owner, contract, amount, is_pair)
                        written == [tk EXCEPT !.balances = r.balances,
                                              !.allowances = d.allowances]
                    IN IF ~r.ok THEN ErrAfter(r.err, written)
                       ELSE Ok(written, tstore,
                               r.messages \o <<Msg(contract, TokenAddr, "receive", info_sender,
                                                   NoAddr, r.outgoing_amount, msg)>>)

\* cw20_base::allowances::execute_increase_allowance, reached through the
\* token's dispatch.
execute_increase_allowance(tk, info_sender, spender, amount) ==
    IF spender = info_sender THEN Err("CannotSetOwnAccount")
    ELSE LET cur == tk.allowances[<<info_sender, spender>>]
             base == IF cur = NoAllowance THEN 0 ELSE cur
         IN Ok([tk EXCEPT !.allowances[<<info_sender, spender>>] = base + amount], tstore, <<>>)

\* The admin test passing for every sender (mutation of ensure_admin).
ensure_admin_Anyone(tk, info_sender) == TRUE

ensure_admin(tk, info_sender) == info_sender = tk.admin

\* set_tax_rate without the test on reflection_rate + burn_rate (mutation of
\* set_tax_rate).
set_tax_rate_NoSumTest(tk, info_sender, global_rate, reflection_rate, burn_rate) ==
    IF ~ensure_admin(tk, info_sender) THEN Err("Unauthorized: not admin")
    ELSE IF global_rate > DecimalOne THEN Err("global_rate must be <= 1")
    ELSE Ok([tk EXCEPT !.tax_rate = global_rate, !.reflection_rate = reflection_rate,
                       !.burn_rate = burn_rate], tstore, <<>>)

set_tax_rate(tk, info_sender, global_rate, reflection_rate, burn_rate) ==
    IF ~ensure_admin(tk, info_sender) THEN Err("Unauthorized: not admin")
    ELSE IF global_rate > DecimalOne THEN Err("global_rate must be <= 1")
    ELSE IF reflection_rate + burn_rate > DecimalOne
    THEN Err("addition of reflection_rate & burn_rate must be <= 1")
    ELSE Ok([tk EXCEPT !.tax_rate = global_rate, !.reflection_rate = reflection_rate,
                       !.burn_rate = burn_rate], tstore, <<>>)

\* set_pairlist deleting the entry it is asked to disable (mutation of
\* set_pairlist).
set_pairlist_Removes(tk, info_sender, user, enable) ==
    IF ~ensure_admin(tk, info_sender) THEN Err("Unauthorized: not admin")
    ELSE IF ~addr_validate(user) THEN Err("InvalidAddress")
    ELSE Ok([tk EXCEPT !.pairlist =
                [a \in IF enable THEN (DOMAIN tk.pairlist) \cup {user}
                                 ELSE (DOMAIN tk.pairlist) \ {user} |->
                    IF a = user THEN enable ELSE tk.pairlist[a]]], tstore, <<>>)

set_pairlist(tk, info_sender, user, enable) ==
    IF ~ensure_admin(tk, info_sender) THEN Err("Unauthorized: not admin")
    ELSE IF ~addr_validate(user) THEN Err("InvalidAddress")
    ELSE Ok([tk EXCEPT !.pairlist =
                [a \in (DOMAIN tk.pairlist) \cup {user} |->
                    IF a = user THEN enable ELSE tk.pairlist[a]]], tstore, <<>>)

\* The throttle: LAST_LIQUIFY is read, compared and written inside the one
\* handler execution.
\* The throttle without its one-second margin (mutation of should_liquify).
should_liquify_NoMargin(block_time, last_liquify) == block_time > last_liquify

should_liquify(block_time, last_liquify) == block_time > last_liquify + 1

\* LAST_LIQUIFY read as if it were never stored (mutation of load_last_liquify).
load_last_liquify_Unset(tk) == 0

\* LAST_LIQUIFY.may_load(..).unwrap_or_default(): 0 until first saved.
load_last_liquify(tk) == tk.last_liquify

\* The trigger without the save of LAST_LIQUIFY (mutation of
\* generate_transfer_event).
generate_transfer_event_NoSave(tk, info_sender, block_time, from, to, amount) ==
    LET last_liquify == load_last_liquify(tk)
    IN IF info_sender /= TokenAddr THEN Err("Unauthorized: not contract")
       ELSE IF should_liquify(block_time, last_liquify)
       THEN Ok(tk, tstore, <<Msg(tk.treasury, TokenAddr, "liquify", NoAddr, NoAddr, 0, "")>>)
       ELSE Ok(tk, tstore, <<>>)

\* The trigger without the test on its sender (mutation of
\* generate_transfer_event).
generate_transfer_event_AnySender(tk, info_sender, block_time, from, to, amount) ==
    LET last_liquify == load_last_liquify(tk)
    IN IF should_liquify(block_time, last_liquify)
       THEN Ok([tk EXCEPT !.last_liquify = block_time], tstore,
               <<Msg(tk.treasury, TokenAddr, "liquify", NoAddr, NoAddr, 0, "")>>)
       ELSE Ok(tk, tstore, <<>>)

generate_transfer_event(tk, info_sender, block_time, from, to, amount) ==
    LET last_liquify == load_last_liquify(tk)
    IN IF info_sender /= TokenAddr THEN Err("Unauthorized: not contract")
       ELSE IF should_liquify(block_time, last_liquify)
       THEN Ok([tk EXCEPT !.last_liquify = block_time], tstore,
               <<Msg(tk.treasury, TokenAddr, "liquify", NoAddr, NoAddr, 0, "")>>)
       ELSE Ok(tk, tstore, <<>>)

migrate_treasury(tk, info_sender) ==
    IF tk.treasury = NoAddr THEN Err("NotFound")
    ELSE IF info_sender /= tk.admin THEN Err("Not admin")
    ELSE Ok(tk, tstore, <<Msg(tk.treasury, TokenAddr, "migrate", NoAddr, NoAddr, 0, "")>>)

(***************************************************************************)
(* Collaborators of the treasury: the AMM pair contracts and their         *)
(* answers to the pair-info and simulation queries.                        *)
(***************************************************************************)
TokenAsset(c) == [type |-> "token", id |-> c]

NativeAsset(d) == [type |-> "native", id |-> d]

Quote == NativeAsset("inj")

OtherQuote == NativeAsset("usdt")

AmmContracts == {PairContract, ReflContract}

\* dojoswap PairInfo reported by each AMM contract.
PairInfoOf(c) ==
    IF c = PairContract
    THEN [asset_infos |-> <<TokenAsset(TokenAddr), Quote>>, liquidity_token |-> "lptoken"]
    ELSE [asset_infos |-> <<TokenAsset("dojo"), Quote>>, liquidity_token |-> "lptoken2"]

\* A membership test that accepts every asset (mutation of InPair).
InPair_Any(info, a) == TRUE

InPair(info, a) == \E i \in 1..2 : info.asset_infos[i] = a

\* Simulation query of the pair: the quote amount returned for an offer.
SwapPrice == 2

simulate(pair_contract, offer_amount) == offer_amount * SwapPrice

(***************************************************************************)
(* Treasury contract                                                       *)
(***************************************************************************)
Unbound == <<>>

treasury_ensure_admin(ts, info_sender) == info_sender = ts.admin

\* cw20 Balance query sent to the token contract.
query_balance(tk, address) == tk.balances[address]

\* The reply to QueryRates is decoded as a tuple of four Decimals.
decode_rates(reply) ==
    IF Len(reply) = 4
    THEN [ok |-> TRUE, reflection_rate |-> reply[2], burn_rate |-> reply[3]]
    ELSE [ok |-> FALSE, reflection_rate |-> 0, burn_rate |-> 0]

PlanMsg(to, kind, recipient, amount, payload, assets, funds) ==
    [to |-> to, sender |-> TreasuryAddr, kind |-> kind, owner |-> NoAddr,
     recipient |-> recipient, amount |-> amount, payload |-> payload,
     assets |-> assets, funds |-> funds]

\* The liquidity leg attaching funds whatever the type of the quote asset
\* (mutation of liquidity_leg).
liquidity_leg_AlwaysFunds(ts, liquidity_amt) ==
    LET token_c == ts.token
        liquidity_pair == ts.liquidity_pair
        liquidity_pair_contract == ts.liquidity_pair_contract
        reflection_pair == ts.reflection_pair
        swap_amount == liquidity_amt \div 2
        return_amount == simulate(liquidity_pair_contract, swap_amount)
        assets == << [amount |-> liquidity_amt - swap_amount, info |-> liquidity_pair[1]],
                     [amount |-> return_amount, info |-> liquidity_pair[2]] >>
    IN << PlanMsg(token_c, "increase_allowance", liquidity_pair_contract,
                  liquidity_amt - swap_amount, "", <<>>, <<>>),
          PlanMsg(token_c, "send", liquidity_pair_contract, swap_amount, "swap", <<>>, <<>>),
          PlanMsg(liquidity_pair_contract, "provide_liquidity", NoAddr, 0, "",
                  assets, <<[amount |-> return_amount, denom |-> reflection_pair[2].id]>>) >>

liquidity_leg(ts, liquidity_amt) ==
    LET token_c == ts.token
        liquidity_pair == ts.liquidity_pair
        liquidity_pair_contract == ts.liquidity_pair_contract
        reflection_pair == ts.reflection_pair
        swap_amount == liquidity_amt \div 2
        return_amount == simulate(liquidity_pair_contract, swap_amount)
        assets == << [amount |-> liquidity_amt - swap_amount, info |-> liquidity_pair[1]],
                     [amount |-> return_amount, info |-> liquidity_pair[2]] >>
    IN << PlanMsg(token_c, "increase_allowance", liquidity_pair_contract,
                  liquidity_amt - swap_amount, "", <<>>, <<>>),
          PlanMsg(token_c, "send", liquidity_pair_contract, swap_amount, "swap", <<>>, <<>>) >>
       \o (IF reflection_pair[2].type = "native"
           THEN << PlanMsg(liquidity_pair_contract, "provide_liquidity", NoAddr, 0, "",
                           assets, <<[amount |-> return_amount, denom |-> reflection_pair[2].id]>>) >>
           ELSE << PlanMsg(reflection_pair[2].id, "increase_allowance", liquidity_pair_contract,
                           return_amount, "", <<>>, <<>>),
                   PlanMsg(liquidity_pair_contract, "provide_liquidity", NoAddr, 0, "",
                           assets, <<>>) >>)

\* The three amounts liquify splits the treasury's balance into.
liquify_split(contract_balance, reflection_rate, burn_rate) ==
    LET reflect_amt == MulFloor(contract_balance, reflection_rate)
        burn_amt == MulFloor(contract_balance, burn_rate)
    IN [reflect_amt |-> reflect_amt, burn_amt |-> burn_amt,
        liquidity_amt |-> contract_balance - reflect_amt - burn_amt]

\* liquify_plan with the burn pushed before the reflection send (mutation of
\* liquify_plan).
liquify_plan_BurnFirst(ts, contract_balance, reflection_rate, burn_rate) ==
    LET split == liquify_split(contract_balance, reflection_rate, burn_rate)
    IN (IF split.liquidity_amt > 0 THEN liquidity_leg(ts, split.liquidity_amt) ELSE <<>>)
       \o (IF split.burn_amt > 0
           THEN << PlanMsg(ts.token, "burn", NoAddr, split.burn_amt, "", <<>>, <<>>) >>
           ELSE <<>>)
       \o (IF split.reflect_amt > 0
           THEN << PlanMsg(ts.token, "send", ts.router, split.reflect_amt, "swap_operations",
                           << TokenAsset(ts.token), ts.reflection_pair[2],
                              ts.reflection_pair[1] >>, <<>>) >>
           ELSE <<>>)

liquify_plan(ts, contract_balance, reflection_rate, burn_rate) ==
    LET split == liquify_split(contract_balance, reflection_rate, burn_rate)
        reflect_amt == split.reflect_amt
        burn_amt == split.burn_amt
        liquidity_amt == split.liquidity_amt
    IN (IF liquidity_amt > 0 THEN liquidity_leg(ts, liquidity_amt) ELSE <<>>)
       \o (IF reflect_amt > 0
           THEN << PlanMsg(ts.token, "send", ts.router, reflect_amt, "swap_operations",
                           << TokenAsset(ts.token), ts.reflection_pair[2],
                              ts.reflection_pair[1] >>, <<>>) >>
           ELSE <<>>)
       \o (IF burn_amt > 0
           THEN << PlanMsg(ts.token, "burn", NoAddr, burn_amt, "", <<>>, <<>>) >>
           ELSE <<>>)

\* liquify_treasury testing the balance before it unwraps the bindings
\* (mutation of liquify_treasury).
liquify_treasury_BalanceFirst(tk, ts) ==
    LET contract_balance == query_balance(tk, TreasuryAddr)
    IN IF contract_balance < ts.min_liquify_amt THEN Ok(tk, ts, <<>>)
       ELSE IF ts.liquidity_pair = Unbound \/ ts.liquidity_pair_contract = NoAddr
               \/ ts.reflection_pair = Unbound
       THEN Err("panic: unwrap on None")
       ELSE LET rates == decode_rates(query_rate(tk))
            IN IF ~rates.ok THEN Err("ParseErr")
               ELSE Ok(tk, ts, liquify_plan(ts, contract_balance, rates.reflection_rate,
                                            rates.burn_rate))

\* liquify_treasury with the short-circuit comparison reversed (mutation of
\* liquify_treasury).
liquify_treasury_Reversed(tk, ts) ==
    LET contract_balance == query_balance(tk, TreasuryAddr)
    IN IF ts.liquidity_pair = Unbound \/ ts.liquidity_pair_contract = NoAddr
          \/ ts.reflection_pair = Unbound
       THEN Err("panic: unwrap on None")
       ELSE IF contract_balance >= ts.min_liquify_amt THEN Ok(tk, ts, <<>>)
       ELSE LET rates == decode_rates(query_rate(tk))
            IN IF ~rates.ok THEN Err("ParseErr")
               ELSE Ok(tk, ts, liquify_plan(ts, contract_balance, rates.reflection_rate,
                                            rates.burn_rate))

liquify_treasury(tk, ts) ==
    LET contract_balance == query_balance(tk, TreasuryAddr)
    IN IF ts.liquidity_pair = Unbound \/ ts.liquidity_pair_contract = NoAddr
          \/ ts.reflection_pair = Unbound
       THEN Err("panic: unwrap on None")
       ELSE IF contract_balance < ts.min_liquify_amt THEN Ok(tk, ts, <<>>)
       ELSE LET rates == decode_rates(query_rate(tk))
            IN IF ~rates.ok THEN Err("ParseErr")
               ELSE Ok(tk, ts, liquify_plan(ts, contract_balance, rates.reflection_rate,
                                            rates.burn_rate))

\* receive_cw20 accepting the notification from the admin instead of the
\* token (mutation of receive_cw20).
receive_cw20_FromAdmin(tk, ts, info_sender, payload) ==
    IF payload = "liquify"
    THEN IF ts.admin /= info_sender THEN Err("Unauthorized")
         ELSE liquify_treasury(tk, ts)
    ELSE Err("Unauthorized")

receive_cw20(tk, ts, info_sender, payload) ==
    IF payload = "liquify"
    THEN IF ts.token /= info_sender THEN Err("Unauthorized")
         ELSE liquify_treasury(tk, ts)
    ELSE Err("Unauthorized")

\* The binding is saved before it is validated; a failed validation returns
\* Err with the binding (and, past the type test, the liquidity token) written.
set_liquidity_pair(ts, info_sender, asset_infos, pair_contract) ==
    IF ~treasury_ensure_admin(ts, info_sender) THEN Err("Unauthorized: not admin")
    ELSE LET reflection_pair == ts.reflection_pair
             ts1 == [ts EXCEPT !.liquidity_pair = asset_infos,
                               !.liquidity_pair_contract = pair_contract]
         IN IF reflection_pair /= Unbound /\ reflection_pair[2] /= asset_infos[2]
            THEN ErrAfterT("asset_infos[1] do not match", ts1)
            ELSE IF pair_contract \notin AmmContracts THEN ErrAfterT("query failed", ts1)
            ELSE LET response == PairInfoOf(pair_contract)
                     ts2 == [ts1 EXCEPT !.liquidity_token = response.liquidity_token]
                 IN IF response.asset_infos[1].type = "native"
                    THEN ErrAfterT("token should be cw20", ts1)
                    ELSE IF ~InPair(response, asset_infos[1])
                    THEN ErrAfterT("asset_infos[0] is not valid", ts2)
                    ELSE IF ~InPair(response, asset_infos[2])
                    THEN ErrAfterT("asset_infos[1] is not valid", ts2)
                    ELSE Ok(token, ts2, <<>>)

\* set_reflection_pair without the comparison of the quote assets (mutation
\* of set_reflection_pair).
set_reflection_pair_NoMatch(ts, info_sender, asset_infos, pair_contract) ==
    IF ~treasury_ensure_admin(ts, info_sender) THEN Err("Unauthorized: not admin")
    ELSE LET ts1 == [ts EXCEPT !.reflection_pair = asset_infos,
                               !.reflection_pair_contract = pair_contract]
         IN IF pair_contract \notin AmmContracts THEN ErrAfterT("query failed", ts1)
            ELSE LET response == PairInfoOf(pair_contract)
                 IN IF ~InPair(response, asset_infos[1])
                    THEN ErrAfterT("asset_infos[0] is not valid", ts1)
                    ELSE IF ~InPair(response, asset_infos[2])
                    THEN ErrAfterT("asset_infos[1] is not valid", ts1)
                    ELSE Ok(token, ts1, <<>>)

set_reflection_pair(ts, info_sender, asset_infos, pair_contract) ==
    IF ~treasury_ensure_admin(ts, info_sender) THEN Err("Unauthorized: not admin")
    ELSE LET liquidity_pair == ts.liquidity_pair
             ts1 == [ts EXCEPT !.reflection_pair = asset_infos,
                               !.reflection_pair_contract = pair_contract]
         IN IF liquidity_pair /= Unbound /\ liquidity_pair[2] /= asset_infos[2]
            THEN ErrAfterT("asset_infos[1] do not match", ts1)
            ELSE IF pair_contract \notin AmmContracts THEN ErrAfterT("query failed", ts1)
            ELSE LET response == PairInfoOf(pair_contract)
                 IN IF ~InPair(response, asset_infos[1])
                    THEN ErrAfterT("asset_infos[0] is not valid", ts1)
                    ELSE IF ~InPair(response, asset_infos[2])
                    THEN ErrAfterT("asset_infos[1] is not valid", ts1)
                    ELSE Ok(token, ts1, <<>>)

set_min_liquify_amt(ts, info_sender, min_liquify_amt) ==
    IF ~treasury_ensure_admin(ts, info_sender) THEN Err("Unauthorized: not admin")
    ELSE Ok(token, [ts EXCEPT !.min_liquify_amt = min_liquify_amt], <<>>)

\* Balance the treasury holds in a cw20 contract other than the token.
ExternalBalance == 1

ExternalTokens == {"lptoken", "lptoken2", "dojo", "usdc"}

\* withdraw_token without the test on the liquidity token (mutation of
\* withdraw_token).
withdraw_token_NoGuard(tk, ts, info_sender, token_c) ==
    IF ~treasury_ensure_admin(ts, info_sender) THEN Err("Unauthorized: not admin")
    ELSE LET balance == IF token_c = TokenAddr THEN query_balance(tk, TreasuryAddr)
                        ELSE ExternalBalance
         IN Ok(tk, ts, << PlanMsg(token_c, "transfer", info_sender, balance, "", <<>>, <<>>) >>)

withdraw_token(tk, ts, info_sender, token_c) ==
    IF ~treasury_ensure_admin(ts, info_sender) THEN Err("Unauthorized: not admin")
    ELSE IF token_c = ts.liquidity_token THEN Err("Unauthorized: not allowed to withdraw LP")
    ELSE LET balance == IF token_c = TokenAddr THEN query_balance(tk, TreasuryAddr)
                        ELSE ExternalBalance
         IN Ok(tk, ts, << PlanMsg(token_c, "transfer", info_sender, balance, "", <<>>, <<>>) >>)

(***************************************************************************)
(* Runtime: submission, depth-first dispatch, commit and revert            *)
(***************************************************************************)
NoTx == <<>>

Idle == queue = <<>>

\* The messages a handler may be run on: what users submit when no
\* transaction is running, else the next emitted message.
Incoming(user_msgs) == IF Idle THEN user_msgs ELSE {Head(queue)}

Snapshot == [token |-> token, tstore |-> tstore, triggers |-> triggers]

\* What the stores hold once a handler has returned: its writes when it
\* returned Ok, else the values from the start of the transaction.
\* A failed handler whose writes are kept (mutation of Outcome).
Outcome_KeepsWrites(r, base) == [token |-> r.token, tstore |-> r.tstore]

Outcome(r, base) ==
    IF r.ok THEN [token |-> r.token, tstore |-> r.tstore]
    ELSE [token |-> base.token, tstore |-> base.tstore]

\* Apply the result r of running handler op on message m.  trig is the
\* trigger log after the step and nliq the number of Liquify messages the
\* token emitted in it; tx_liquify counts them over the latest transaction,
\* whether it committed or was reverted.
Deliver(op, m, r, trig, nliq) ==
    LET rest == IF Idle THEN <<>> ELSE Tail(queue)
        base == IF Idle THEN Snapshot ELSE saved
        newq == IF r.ok THEN r.msgs \o rest ELSE <<>>
        out == Outcome(r, base)
    IN /\ resp' = [op |-> op, err |-> r.err]
       /\ UNCHANGED now
       /\ token' = out.token
       /\ tstore' = out.tstore
       /\ triggers' = IF r.ok THEN trig ELSE base.triggers
       /\ queue' = newq
       /\ saved' = IF newq = <<>> THEN NoTx ELSE base
       /\ tx_liquify' = (IF Idle THEN 0 ELSE tx_liquify) + (IF r.ok THEN nliq ELSE 0)

Plain(op, m, r) == Deliver(op, m, r, triggers, 0)

(***************************************************************************)
(* What users submit                                                       *)
(***************************************************************************)
Users == {Admin, User}

Amounts == 0..MaxAmount

Recipients == {Admin, User, TreasuryAddr, NoAddr}

\* Send targets with the hook payload sent along.
SendTargets == {<<PairContract, "swap">>, <<TreasuryAddr, "liquify">>, <<User, "swap">>}

\* (spender, owner) pairs of the delegated operations.
Delegations == {<<Admin, User>>}

UserMsg(to, sender, kind, owner, recipient, amount, payload) ==
    Msg(to, sender, kind, owner, recipient, amount, payload)

TransferMsgs ==
    {UserMsg(TokenAddr, s, "transfer", NoAddr, r, a, "") :
        s \in Users, r \in Recipients, a \in Amounts}

SendMsgs ==
    {UserMsg(TokenAddr, s, "send", NoAddr, c[1], a, c[2]) :
        s \in Users, c \in SendTargets, a \in Amounts}

TransferFromMsgs ==
    {UserMsg(TokenAddr, d[1], "transfer_from", d[2], r, a, "") :
        d \in Delegations, r \in Recipients, a \in Amounts}

SendFromMsgs ==
    {UserMsg(TokenAddr, d[1], "send_from", d[2], c[1], a, c[2]) :
        d \in Delegations, c \in SendTargets, a \in Amounts}

IncreaseAllowanceMsgs ==
    {UserMsg(TokenAddr, d[2], "increase_allowance", NoAddr, d[1], a, "") :
        d \in Delegations \cup {<<User, User>>}, a \in 1..MaxAllowance}

RateInputs == {<<1, 1, 1>>, <<RateDen, 0, 0>>, <<RateDen + 1, 0, 0>>, <<1, RateDen, 1>>}

PairlistInputs == {<<Admin, FALSE>>, <<Admin, TRUE>>, <<User, TRUE>>, <<NoAddr, TRUE>>}

(***************************************************************************)
(* Token contract handlers                                                 *)
(***************************************************************************)
ToToken(m, kind) == m.to = TokenAddr /\ m.kind = kind

\* The token's dispatch of the four transfer operations.
execute(tk, m) ==
    CASE m.kind = "transfer" -> execute_transfer(tk, m.sender, m.recipient, m.amount)
      [] m.kind = "send" -> execute_send(tk, m.sender, m.recipient, m.amount, m.payload)
      [] m.kind = "transfer_from" ->
            execute_transfer_from(tk, m.sender, m.owner, m.recipient, m.amount)
      [] m.kind = "send_from" ->
            execute_send_from(tk, m.sender, m.owner, m.recipient, m.amount, m.payload)

\* The handler named kind runs on message m.
Run(kind, m) == ToToken(m, kind) /\ Plain(kind, m, execute(token, m))

Transfer == \E m \in Incoming(TransferMsgs) : Run("transfer", m)

Send == \E m \in Incoming(SendMsgs) : Run("send", m)

TransferFrom == \E m \in Incoming(TransferFromMsgs) : Run("transfer_from", m)

SendFrom == \E m \in Incoming(SendFromMsgs) : Run("send_from", m)

IncreaseAllowance ==
    \E m \in Incoming(IncreaseAllowanceMsgs) :
        /\ ToToken(m, "increase_allowance")
        /\ m.recipient \in Holders
        /\ Idle => LET cur == token.allowances[<<m.sender, m.recipient>>]
                   IN (IF cur = NoAllowance THEN 0 ELSE cur) + m.amount <= MaxAllowance
        /\ Plain("increase_allowance", m,
                 execute_increase_allowance(token, m.sender, m.recipient, m.amount))

SetTaxRate ==
    /\ Idle
    /\ \E s \in Users, rt \in RateInputs :
        Plain("set_tax_rate", Msg(TokenAddr, s, "set_tax_rate", NoAddr, NoAddr, 0, ""),
              set_tax_rate(token, s, rt[1], rt[2], rt[3]))

SetPair ==
    /\ Idle
    /\ \E s \in Users, p \in PairlistInputs :
        Plain("set_pair", Msg(TokenAddr, s, "set_pair", NoAddr, p[1], 0, ""),
              set_pairlist(token, s, p[1], p[2]))

TransferEventMsgs ==
    {UserMsg(TokenAddr, s, "transfer_event", s, TreasuryAddr, a, "") :
        s \in Users, a \in {1}}

Push(trig, e) == IF Len(trig) < 2 THEN Append(trig, e) ELSE <<trig[2], e>>

TransferEvent ==
    \E m \in Incoming(TransferEventMsgs) :
        /\ ToToken(m, "transfer_event")
        /\ LET r == generate_transfer_event(token, m.sender, now, m.owner, m.recipient, m.amount)
           IN Deliver("transfer_event", m, r,
                      IF r.ok THEN Push(triggers, [time |-> now, fired |-> r.msgs /= <<>>])
                      ELSE triggers,
                      Len(r.msgs))

MigrateTreasury ==
    /\ Idle
    /\ \E s \in Users :
        Plain("migrate_treasury", Msg(TokenAddr, s, "migrate_treasury", NoAddr, NoAddr, 0, ""),
              migrate_treasury(token, s))

(***************************************************************************)
(* Treasury contract handlers                                              *)
(***************************************************************************)
ToTreasury(m, kind) == m.to = TreasuryAddr /\ m.kind = kind

GoodLiquidityPair == <<TokenAsset(TokenAddr), Quote>>

GoodReflectionPair == <<TokenAsset("dojo"), Quote>>

Reverse(p) == <<p[2], p[1]>>

LiquidityPairInputs ==
    { <<GoodLiquidityPair, PairContract>>, <<Reverse(GoodLiquidityPair), PairContract>>,
      <<<<TokenAsset(TokenAddr), OtherQuote>>, PairContract>>,
      <<GoodReflectionPair, ReflContract>>, <<GoodLiquidityPair, User>> }

ReflectionPairInputs ==
    { <<GoodReflectionPair, ReflContract>>, <<Reverse(GoodReflectionPair), ReflContract>>,
      <<<<TokenAsset("dojo"), OtherQuote>>, ReflContract>> }

MinLiquifyInputs == {0, MaxAmount}

WithdrawInputs == {TokenAddr, "lptoken", "lptoken2", "dojo"}

SetLiquidityPair ==
    /\ Idle
    /\ \E s \in Users, p \in LiquidityPairInputs :
        Plain("set_liquidity_pair",
              Msg(TreasuryAddr, s, "set_liquidity_pair", NoAddr, p[2], 0, ""),
              set_liquidity_pair(tstore, s, p[1], p[2]))

SetReflectionPair ==
    /\ Idle
    /\ \E s \in Users, p \in ReflectionPairInputs :
        Plain("set_reflection_pair",
              Msg(TreasuryAddr, s, "set_reflection_pair", NoAddr, p[2], 0, ""),
              set_reflection_pair(tstore, s, p[1], p[2]))

SetMinLiquify ==
    /\ Idle
    /\ \E s \in Users, a \in MinLiquifyInputs :
        Plain("set_min_liquify", Msg(TreasuryAddr, s, "set_min_liquify", NoAddr, NoAddr, a, ""),
              set_min_liquify_amt(tstore, s, a))

LiquifyMsgs == {UserMsg(TreasuryAddr, s, "liquify", NoAddr, NoAddr, 0, "") : s \in Users}

Liquify ==
    \E m \in Incoming(LiquifyMsgs) :
        /\ ToTreasury(m, "liquify")
        /\ Plain("liquify", m, liquify_treasury(token, tstore))

ReceiveMsgs == {UserMsg(TreasuryAddr, s, "receive", s, NoAddr, 1, "liquify") : s \in Users}

Receive ==
    \E m \in Incoming(ReceiveMsgs) :
        /\ ToTreasury(m, "receive")
        /\ Plain("receive", m, receive_cw20(token, tstore, m.sender, m.payload))

WithdrawToken ==
    /\ Idle
    /\ \E s \in Users, t \in WithdrawInputs :
        Plain("withdraw_token", Msg(TreasuryAddr, s, "withdraw_token", NoAddr, t, 0, ""),
              withdraw_token(token, tstore, s, t))

\* The treasury's migrate entry point accepts and changes nothing.
TreasuryMigrate ==
    /\ ~Idle
    /\ ToTreasury(Head(queue), "migrate")
    /\ Plain("migrate", Head(queue), Ok(token, tstore, <<>>))

(***************************************************************************)
(* Other contracts and the chain                                           *)
(***************************************************************************)
ExternalContracts == AmmContracts \cup ExternalTokens \cup {Router}

TokenKinds == {"transfer", "send", "transfer_from", "send_from", "increase_allowance",
               "burn", "set_tax_rate", "set_pair", "transfer_event", "migrate_treasury"}

TreasuryKinds == {"receive", "liquify", "migrate", "set_liquidity_pair",
                  "set_reflection_pair", "set_min_liquify", "withdraw_token"}

\* A contract that is handed tokens through Send either keeps them or
\* returns them to the account that sent them.
ExternalReceive ==
    /\ ~Idle
    /\ LET m == Head(queue)
       IN /\ m.to \in ExternalContracts
          /\ m.kind = "receive"
          /\ \E back \in BOOLEAN :
                Plain("external_receive", m,
                      Ok(token, tstore,
                         IF back /\ m.amount > 0
                         THEN << Msg(TokenAddr, m.to, "transfer", NoAddr, m.owner, m.amount, "") >>
                         ELSE <<>>))

ExternalExecute ==
    /\ ~Idle
    /\ LET m == Head(queue)
       IN /\ m.to \in ExternalContracts
          /\ m.kind /= "receive"
          /\ Plain("external_execute", m, Ok(token, tstore, <<>>))

\* A message to an address that holds no contract, or one the contract at
\* that address cannot decode, fails and reverts the transaction.
Undeliverable ==
    /\ ~Idle
    /\ LET m == Head(queue)
       IN /\ \/ m.to \notin ExternalContracts \cup {TokenAddr, TreasuryAddr}
             \/ m.to = TokenAddr /\ m.kind \notin TokenKinds
             \/ m.to = TreasuryAddr /\ m.kind \notin TreasuryKinds
          /\ Plain("undeliverable", m, Err("no such contract or message"))

\* Block time advances between transactions.
Tick ==
    /\ Idle
    /\ now < MaxTime
    /\ now' = now + 1
    /\ resp' = [op |-> "tick", err |-> ""]
    /\ UNCHANGED <<token, tstore, queue, saved, triggers, tx_liquify>>

(***************************************************************************)
(* Specification                                                           *)
(***************************************************************************)
InitialSupply == 2

InitialBalances == [a \in Holders |-> IF a = User THEN InitialSupply ELSE 0]

\* No handler of the token writes TREASURY: it is unset after instantiate
\* and holds an address only when the storage came with one (the contract
\* exposes migrate and reads the item in migrate_treasury).
TreasuryItems == {NoAddr, TreasuryAddr}

Init ==
    /\ token \in { [balances |-> InitialBalances,
                    allowances |-> [k \in Holders \X Holders |-> NoAllowance],
                    pairlist |-> [a \in {Admin} |-> TRUE],
                    tax_rate |-> 0, reflection_rate |-> 0, burn_rate |-> 0,
                    last_liquify |-> 0, treasury |-> t, admin |-> Admin] :
                   t \in TreasuryItems }
    /\ tstore = [admin |-> Admin, router |-> Router, token |-> TokenAddr,
                 min_liquify_amt |-> 0, liquidity_pair |-> Unbound,
                 liquidity_pair_contract |-> NoAddr, reflection_pair |-> Unbound,
                 reflection_pair_contract |-> NoAddr, liquidity_token |-> NoAddr]
    /\ now = 0
    /\ queue = <<>>
    /\ saved = NoTx
    /\ resp = [op |-> "instantiate", err |-> ""]
    /\ triggers = <<>>
    /\ tx_liquify = 0

\* The token's transfer surface with its configuration; the treasury keeps
\* its instantiation state, block time stands still.
Next ==
    \/ Transfer
    \/ Send
    \/ TransferFrom
    \/ SendFrom
    \/ IncreaseAllowance
    \/ SetTaxRate
    \/ SetPair
    \/ TransferEvent
    \/ Receive
    \/ ExternalReceive
    \/ Undeliverable

Spec == Init /\ [][Next]_vars

\* Taxed transfers, the throttled trigger and the treasury it reaches, with
\* block time advancing.
NextThrottle ==
    \/ Transfer
    \/ Send
    \/ TransferEvent
    \/ Liquify
    \/ Receive
    \/ SetLiquidityPair
    \/ SetReflectionPair
    \/ SetMinLiquify
    \/ ExternalReceive
    \/ Undeliverable
    \/ Tick

SpecThrottle == Init /\ [][NextThrottle]_vars

\* The administration of the treasury: the bindings and the withdrawal of
\* the tokens it holds, with the transfers that fund it and that a
\* withdrawal emits.
NextTreasury ==
    \/ SetLiquidityPair
    \/ SetReflectionPair
    \/ WithdrawToken
    \/ Transfer
    \/ ExternalExecute

SpecTreasury == Init /\ [][NextTreasury]_vars

\* The admin-gated operations of both contracts, called by the admin and by
\* another account, among transfers and direct triggers.
NextAdmin ==
    \/ SetTaxRate
    \/ SetPair
    \/ MigrateTreasury
    \/ TreasuryMigrate
    \/ SetLiquidityPair
    \/ SetReflectionPair
    \/ SetMinLiquify
    \/ WithdrawToken
    \/ Transfer
    \/ TransferEvent
    \/ Liquify
    \/ ExternalExecute

SpecAdmin == Init /\ [][NextAdmin]_vars

(***************************************************************************)
(* The plan of liquify as a function of the treasury's balance, the        *)
(* token's rates and the bound pairs: SpecPlan starts from a treasury with *)
(* both pairs bound on a common quote asset, native or cw20, and applies   *)
(* the computation of liquify_treasury that follows the reading of the     *)
(* rates.                                                                  *)
(***************************************************************************)
MaxBalance == 5

PlanQuotes == {Quote, TokenAsset("usdc")}

\* Rates set_tax_rate accepts: reflection_rate + burn_rate <= 1.
PlanRates == {rb \in (0..RateDen) \X (0..RateDen) : rb[1] + rb[2] <= DecimalOne}

InitPlan ==
    /\ \E b \in 0..MaxBalance, rb \in PlanRates :
          token = [balances |-> [InitialBalances EXCEPT ![TreasuryAddr] = b],
                   allowances |-> [k \in Holders \X Holders |-> NoAllowance],
                   pairlist |-> [a \in {Admin} |-> TRUE],
                   tax_rate |-> DecimalOne, reflection_rate |-> rb[1], burn_rate |-> rb[2],
                   last_liquify |-> 0, treasury |-> TreasuryAddr, admin |-> Admin]
    /\ \E q \in PlanQuotes :
          tstore = [admin |-> Admin, router |-> Router, token |-> TokenAddr,
                    min_liquify_amt |-> 0,
                    liquidity_pair |-> <<TokenAsset(TokenAddr), q>>,
                    liquidity_pair_contract |-> PairContract,
                    reflection_pair |-> <<TokenAsset("dojo"), q>>,
                    reflection_pair_contract |-> ReflContract,
                    liquidity_token |-> "lptoken"]
    /\ now = 0
    /\ queue = <<>>
    /\ saved = NoTx
    /\ resp = [op |-> "instantiate", err |-> ""]
    /\ triggers = <<>>
    /\ tx_liquify = 0

\* liquify_treasury from the split of the balance to the returned messages.
LiquifyPlan ==
    /\ resp.op = "instantiate"
    /\ queue' = liquify_plan(tstore, query_balance(token, TreasuryAddr),
                             token.reflection_rate, token.burn_rate)
    /\ resp' = [op |-> "liquify_plan", err |-> ""]
    /\ UNCHANGED <<token, tstore, now, saved, triggers, tx_liquify>>

NextPlan == LiquifyPlan

SpecPlan == InitPlan /\ [][NextPlan]_vars

(***************************************************************************)
(* The execution of the liquidity leg: SpecSwap starts from a treasury     *)
(* with both pairs bound and a token whose tax is on, the liquidity pair   *)
(* contract being registered in the pair registry or not; liquify returns  *)
(* its plan for the whole balance as liquidity and the chain runs the plan *)
(* through the token and the pair contract.                                *)
(***************************************************************************)
SwapPairlists == {[a \in {Admin} |-> TRUE], [a \in {Admin, PairContract} |-> TRUE]}

InitSwap ==
    /\ \E b \in 0..MaxBalance, t \in 1..DecimalOne, pl \in SwapPairlists :
          token = [balances |-> [InitialBalances EXCEPT ![TreasuryAddr] = b],
                   allowances |-> [k \in Holders \X Holders |-> NoAllowance],
                   pairlist |-> pl,
                   tax_rate |-> t, reflection_rate |-> 0, burn_rate |-> 0,
                   last_liquify |-> 0, treasury |-> TreasuryAddr, admin |-> Admin]
    /\ \E q \in PlanQuotes :
          tstore = [admin |-> Admin, router |-> Router, token |-> TokenAddr,
                    min_liquify_amt |-> 0,
                    liquidity_pair |-> <<TokenAsset(TokenAddr), q>>,
                    liquidity_pair_contract |-> PairContract,
                    reflection_pair |-> <<TokenAsset("dojo"), q>>,
                    reflection_pair_contract |-> ReflContract,
                    liquidity_token |-> "lptoken"]
    /\ now = 0
    /\ queue = <<>>
    /\ saved = NoTx
    /\ resp = [op |-> "instantiate", err |-> ""]
    /\ triggers = <<>>
    /\ tx_liquify = 0

\* Liquify on a message of a user, from the split of the balance on: the
\* plan is handed to the chain.
LiquifyPlanned ==
    /\ Idle
    /\ resp.op = "instantiate"
    /\ \E m \in LiquifyMsgs :
          Plain("liquify_plan", m,
                Ok(token, tstore,
                   liquify_plan(tstore, query_balance(token, TreasuryAddr),
                                token.reflection_rate, token.burn_rate)))

\* Only the plan runs: the instructions of the treasury and what they emit.
PlanIncreaseAllowance == ~Idle /\ IncreaseAllowance

PlanSend == ~Idle /\ Send

PlanTransferEvent == ~Idle /\ TransferEvent

NextSwap ==
    \/ LiquifyPlanned
    \/ PlanIncreaseAllowance
    \/ PlanSend
    \/ PlanTransferEvent
    \/ ExternalReceive
    \/ ExternalExecute

SpecSwap == InitSwap /\ [][NextSwap]_vars

(***************************************************************************)
(* The tax breakdown as a function of the amount and the stored rates:     *)
(* SpecTax starts from a token holding any rates set_tax_rate accepts,     *)
(* with a QueryTax query pending, and answers the query.                   *)
(***************************************************************************)
InitTax ==
    /\ \E t \in 0..DecimalOne, rb \in PlanRates :
          token = [balances |-> InitialBalances,
                   allowances |-> [k \in Holders \X Holders |-> NoAllowance],
                   pairlist |-> [a \in {Admin} |-> TRUE],
                   tax_rate |-> t, reflection_rate |-> rb[1], burn_rate |-> rb[2],
                   last_liquify |-> 0, treasury |-> NoAddr, admin |-> Admin]
    /\ tstore = [admin |-> Admin, router |-> Router, token |-> TokenAddr,
                 min_liquify_amt |-> 0, liquidity_pair |-> Unbound,
                 liquidity_pair_contract |-> NoAddr, reflection_pair |-> Unbound,
                 reflection_pair_contract |-> NoAddr, liquidity_token |-> NoAddr]
    /\ now = 0
    /\ \E a \in 0..MaxBalance :
          queue = << Msg(TokenAddr, User, "query_tax", NoAddr, NoAddr, a, "") >>
    /\ saved = NoTx
    /\ resp = [op |-> "instantiate", err |-> ""]
    /\ triggers = <<>>
    /\ tx_liquify = 0

\* QueryMsg::QueryTax { amount }: the reply is kept next to the query.
QueryTax ==
    /\ resp.op = "instantiate"
    /\ resp' = [op |-> "query_tax", err |-> ""]
    /\ saved' = query_tax(token, Head(queue).amount)
    /\ UNCHANGED <<token, tstore, now, queue, triggers, tx_liquify>>

NextTax == QueryTax

SpecTax == InitTax /\ [][NextTax]_vars

(***************************************************************************)
(* Vocabulary of the properties.  A property about an operation is stated  *)
(* in every reachable state about every call that can run in it: Result is *)
(* what the handler returns there and After what the step leaves in the    *)
(* stores.                                                                 *)
(***************************************************************************)
TransferKinds == {"transfer", "send", "transfer_from", "send_from"}

\* The transfer calls that can run in the current state.
TransferCalls ==
    {m \in Incoming(TransferMsgs \cup SendMsgs \cup TransferFromMsgs \cup SendFromMsgs) :
        m.to = TokenAddr /\ m.kind \in TransferKinds}

Delegated(m) == m.kind \in {"transfer_from", "send_from"}

\* The account whose balance a transfer call debits.
Debited(m) == IF Delegated(m) THEN m.owner ELSE m.sender

\* The stores at the start of the transaction the next step belongs to.
TxBase == IF Idle THEN Snapshot ELSE saved

Result(m) == execute(token, m)

After(m) == Outcome(Result(m), TxBase).token

Registered(a) == IsPair(token, a)

AllowanceCovers(m) ==
    Delegated(m) =>
        /\ token.allowances[<<m.owner, m.sender>>] /= NoAllowance
        /\ token.allowances[<<m.owner, m.sender>>] >= m.amount

EmitsTransferEvent(m) ==
    \E i \in 1..Len(Result(m).msgs) : Result(m).msgs[i].kind = "transfer_event"

Gain(m, a) == IF a \in Holders THEN After(m).balances[a] - token.balances[a] ELSE 0

Debit(bal, a, x) == [bal EXCEPT ![a] = @ - x]

(***************************************************************************)
(* C1: a transfer operation with a positive amount, a registered debited   *)
(* account or recipient, enough balance (and, when delegated, enough       *)
(* allowance) and a valid recipient succeeds, debits the full amount,      *)
(* credits the recipient after_tax and the treasury address taxed_amount.  *)
(***************************************************************************)
C1_TaxedTransferDelivers ==
    \A m \in TransferCalls :
        (/\ m.amount > 0
         /\ Registered(Debited(m)) \/ Registered(m.recipient)
         /\ token.balances[Debited(m)] >= m.amount
         /\ addr_validate(m.recipient)
         /\ AllowanceCovers(m))
        => /\ Result(m).ok
           /\ LET taxed_amount == MulFloor(m.amount, token.tax_rate)
              IN After(m).balances =
                    Credit(Credit(Debit(token.balances, Debited(m), m.amount),
                                  m.recipient, m.amount - taxed_amount),
                           token.treasury, taxed_amount)

\* A transfer the claim or the code treats as taxable.
Taxable(m) == Registered(Debited(m)) \/ Registered(m.recipient) \/ Registered(m.sender)

BalanceEquations(m) ==
    /\ - Gain(m, Debited(m)) = m.amount
    /\ Gain(m, m.recipient) + Gain(m, token.treasury) = m.amount

TaxedBranch(m) == EmitsTransferEvent(m) \/ Result(m).err = "InvalidAddress: treasury"

\* The call passed every check that precedes the choice of branch.
ReachesBranch(m) == Result(m).ok \/ Result(m).err = "InvalidAddress: treasury"

(***************************************************************************)
(* C3: in all four transfer operations a transfer is taxed if and only if  *)
(* the debited account (the sender of transfer/send, the owner of          *)
(* transfer_from/send_from) or the recipient is flagged in the pair        *)
(* registry, whoever the delegated spender is.                             *)
(***************************************************************************)
C3_TaxedIffDebitedOrRecipientRegistered ==
    \A m \in TransferCalls :
        ReachesBranch(m)
        => (TaxedBranch(m) <=> Registered(Debited(m)) \/ Registered(m.recipient))

C5_ZeroAmountFails ==
    \A m \in TransferCalls :
        m.amount = 0
        => /\ Result(m).err = "InvalidZeroAmount"
           /\ After(m).balances = token.balances
           /\ After(m).allowances = token.allowances
           /\ Result(m).msgs = <<>>

(***************************************************************************)
(* C6: a transfer operation whose debited account holds less than amount   *)
(* fails and leaves every balance and allowance as it was before the call  *)
(* (the allowance a delegated operation had deducted included), and no     *)
(* balance is negative in any reachable state.                             *)
(***************************************************************************)
C6_InsufficientFundsRevert ==
    /\ \A a \in Holders : token.balances[a] >= 0
    /\ \A m \in TransferCalls :
          token.balances[Debited(m)] < m.amount
          => /\ ~Result(m).ok
             /\ After(m).balances = TxBase.token.balances
             /\ After(m).allowances = TxBase.token.allowances

\* A delegated transfer has just failed on the owner's balance after its
\* allowance had been found sufficient, and the allowance is still there.
C6_Witness ==
    /\ resp.op \in {"transfer_from", "send_from"}
    /\ resp.err = "Overflow: balance"
    /\ token.allowances[<<User, Admin>>] > token.balances[User]

(***************************************************************************)
(* The throttle and the treasury's liquify, under SpecThrottle.            *)
(***************************************************************************)
\* The treasury triggers that can run in the current state.
TriggerCalls ==
    {m \in Incoming(TransferEventMsgs) : m.to = TokenAddr /\ m.kind = "transfer_event"}

Trigger(m) == generate_transfer_event(token, m.sender, now, m.owner, m.recipient, m.amount)

LiquifyCount(msgs) == Cardinality({i \in 1..Len(msgs) : msgs[i].kind = "liquify"})

ConsecutiveTriggers == Len(triggers) = 2 /\ triggers[2].time - triggers[1].time < 1

FiredOf(i) == IF triggers[i].fired THEN 1 ELSE 0

C9_OneLiquifyPerTransaction == tx_liquify <= 1

\* A transaction in which a trigger fired, the treasury's liquify ran, and
\* the trigger of a later taxed transfer of the same transaction has just
\* been suppressed.
C9_Witness ==
    /\ resp = [op |-> "transfer_event", err |-> ""]
    /\ tx_liquify = 1
    /\ triggers /= <<>>
    /\ ~triggers[Len(triggers)].fired
    /\ token.last_liquify = now

\* The Liquify message a trigger emitted is the next message to run.
TriggeredLiquify ==
    /\ ~Idle
    /\ Head(queue).kind = "liquify"
    /\ Head(queue).to = TreasuryAddr
    /\ Head(queue).sender = TokenAddr

BelowMin == query_balance(token, TreasuryAddr) < tstore.min_liquify_amt

PairsBound ==
    /\ tstore.liquidity_pair /= Unbound
    /\ tstore.liquidity_pair_contract /= NoAddr
    /\ tstore.reflection_pair /= Unbound

LiquifyCalls == {m \in Incoming(LiquifyMsgs) : ToTreasury(m, "liquify")}

\* The steps of the chain: a transfer, its TransferEvent, the Liquify.
ChainCalls == TransferCalls \cup TriggerCalls \cup LiquifyCalls

StepResult(m) ==
    IF m.kind = "transfer_event" THEN Trigger(m)
    ELSE IF m.kind = "liquify" THEN liquify_treasury(token, tstore)
    ELSE Result(m)

Supply(bal) == bal[Admin] + bal[User] + bal[PairContract] + bal[TreasuryAddr]

C12_LiquifyReadsRates ==
    PairsBound /\ ~BelowMin
    => LET r == liquify_treasury(token, tstore)
       IN /\ r.ok
          /\ r.msgs = liquify_plan(tstore, query_balance(token, TreasuryAddr),
                                   token.reflection_rate, token.burn_rate)

\* The split liquify computes from the current balance and rates.
Split ==
    liquify_split(query_balance(token, TreasuryAddr), token.reflection_rate, token.burn_rate)

\* x is the floor of balance * rate / RateDen.
IsFloorOf(x, balance, rate) ==
    x * RateDen <= balance * rate /\ balance * rate < (x + 1) * RateDen

(***************************************************************************)
(* C13: for every treasury balance and every rates with reflection_rate +  *)
(* burn_rate <= 1, the amounts of liquify satisfy reflect_amt + burn_amt + *)
(* liquidity_amt = balance with liquidity_amt >= 0, reflect_amt and        *)
(* burn_amt being the floors of the products.                              *)
(***************************************************************************)
C13_SplitIsExact ==
    token.reflection_rate + token.burn_rate <= DecimalOne
    => /\ Split.reflect_amt + Split.burn_amt + Split.liquidity_amt
             = query_balance(token, TreasuryAddr)
       /\ Split.liquidity_amt >= 0
       /\ IsFloorOf(Split.reflect_amt, query_balance(token, TreasuryAddr),
                    token.reflection_rate)
       /\ IsFloorOf(Split.burn_amt, query_balance(token, TreasuryAddr), token.burn_rate)

\* A plan has been computed with all three legs, the reflection product
\* having been truncated.
C13_Witness ==
    /\ resp.op = "liquify_plan"
    /\ Split.reflect_amt > 0 /\ Split.burn_amt > 0 /\ Split.liquidity_amt > 0
    /\ Split.reflect_amt * RateDen < query_balance(token, TreasuryAddr) * token.reflection_rate
    /\ queue[Len(queue)].kind = "burn"
    /\ queue[Len(queue)].amount = Split.burn_amt

\* What an instruction of the plan asks for: the contract called, the call,
\* its counterparty, its amount, its hook and its assets.
PlanShape(m) ==
    [to |-> m.to, kind |-> m.kind, recipient |-> m.recipient, amount |-> m.amount,
     payload |-> m.payload, assets |-> m.assets]

Instruction(to, kind, recipient, amount, payload, assets) ==
    [to |-> to, kind |-> kind, recipient |-> recipient, amount |-> amount,
     payload |-> payload, assets |-> assets]

SwapAmount == Split.liquidity_amt \div 2

SimulatedQuote == simulate(tstore.liquidity_pair_contract, SwapAmount)

AllowanceAndSwap ==
    << Instruction(tstore.token, "increase_allowance", tstore.liquidity_pair_contract,
                   Split.liquidity_amt - SwapAmount, "", <<>>),
       Instruction(tstore.token, "send", tstore.liquidity_pair_contract, SwapAmount,
                   "swap", <<>>) >>

ProvideLiquidity ==
    << Instruction(tstore.liquidity_pair_contract, "provide_liquidity", NoAddr, 0, "",
                   << [amount |-> Split.liquidity_amt - SwapAmount,
                       info |-> tstore.liquidity_pair[1]],
                      [amount |-> SimulatedQuote, info |-> tstore.liquidity_pair[2]] >>) >>

\* Only when the quote asset is a cw20: the allowance on the quote token.
QuoteAllowance ==
    IF tstore.reflection_pair[2].type = "token"
    THEN << Instruction(tstore.reflection_pair[2].id, "increase_allowance",
                        tstore.liquidity_pair_contract, SimulatedQuote, "", <<>>) >>
    ELSE <<>>

ReflectAndBurn ==
    (IF Split.reflect_amt > 0
     THEN << Instruction(tstore.token, "send", tstore.router, Split.reflect_amt,
                         "swap_operations",
                         << TokenAsset(tstore.token), tstore.reflection_pair[2],
                            tstore.reflection_pair[1] >>) >>
     ELSE <<>>)
    \o (IF Split.burn_amt > 0
        THEN << Instruction(tstore.token, "burn", NoAddr, Split.burn_amt, "", <<>>) >>
        ELSE <<>>)

ReturnedPlan == [i \in 1..Len(queue) |-> PlanShape(queue[i])]

BothBound == tstore.liquidity_pair /= Unbound /\ tstore.reflection_pair /= Unbound

(***************************************************************************)
(* C16: in every reachable state in which both pairs are bound, the second *)
(* asset of the stored liquidity pair is the second asset of the stored    *)
(* reflection pair.                                                        *)
(***************************************************************************)
C16_QuoteAssetsAgree == BothBound => tstore.liquidity_pair[2] = tstore.reflection_pair[2]

\* Both pairs are bound and a binding of the reflection pair with another
\* second asset has just been refused.
C16_Witness ==
    /\ resp = [op |-> "set_reflection_pair", err |-> "asset_infos[1] do not match"]
    /\ BothBound

\* The binding calls that can run in the current state, with their results.
BindingResults ==
    IF ~Idle THEN {}
    ELSE {set_liquidity_pair(tstore, s, p[1], p[2]) : s \in Users, p \in LiquidityPairInputs}
         \cup {set_reflection_pair(tstore, s, p[1], p[2]) :
                  s \in Users, p \in ReflectionPairInputs}

C18_FirstAssetIsOwnToken ==
    resp = [op |-> "set_liquidity_pair", err |-> ""]
    => tstore.liquidity_pair[1] = TokenAsset(tstore.token)

\* The assets the AMM contract c reports for its pair.
Reported(c) == {PairInfoOf(c).asset_infos[i] : i \in 1..2}

\* The supplied pair p = <<asset_infos, pair_contract>> names two assets of
\* the pair the contract reports.
BothReported(p) ==
    /\ p[2] \in AmmContracts
    /\ p[1][1] \in Reported(p[2])
    /\ p[1][2] \in Reported(p[2])

(***************************************************************************)
(* C19: set_liquidity_pair and set_reflection_pair succeed only if both    *)
(* supplied assets are among the assets the target AMM contract reports,   *)
(* in either order; a call with an asset the AMM does not report fails.    *)
(***************************************************************************)
C19_BoundAssetsAreReported ==
    Idle =>
        /\ \A s \in Users, p \in LiquidityPairInputs :
              set_liquidity_pair(tstore, s, p[1], p[2]).ok => BothReported(p)
        /\ \A s \in Users, p \in ReflectionPairInputs :
              set_reflection_pair(tstore, s, p[1], p[2]).ok => BothReported(p)

\* A binding has succeeded with the two reported assets in the order
\* opposite to the AMM's.
C19_Witness ==
    /\ resp = [op |-> "set_reflection_pair", err |-> ""]
    /\ tstore.reflection_pair = Reverse(PairInfoOf(tstore.reflection_pair_contract).asset_infos)

\* The treasury's balance of token t as the token contract reports it.
HeldOf(t) == IF t = TokenAddr THEN token.balances[TreasuryAddr] ELSE ExternalBalance

(***************************************************************************)
(* C20: once a liquidity pair has been bound, withdraw_token by the admin  *)
(* for the liquidity token the AMM reported fails and emits nothing; for   *)
(* every other token it emits one transfer, to the admin, of the whole     *)
(* balance the treasury holds of that token.                               *)
(***************************************************************************)
C20_LiquidityTokenStays ==
    tstore.liquidity_pair /= Unbound
    => /\ tstore.liquidity_token = PairInfoOf(tstore.liquidity_pair_contract).liquidity_token
       /\ \A t \in WithdrawInputs :
             LET r == withdraw_token(token, tstore, tstore.admin, t)
             IN IF t = tstore.liquidity_token
                THEN ~r.ok /\ r.msgs = <<>>
                ELSE /\ r.ok
                     /\ Len(r.msgs) = 1
                     /\ r.msgs[1].to = t
                     /\ r.msgs[1].kind = "transfer"
                     /\ r.msgs[1].recipient = tstore.admin
                     /\ r.msgs[1].amount = HeldOf(t)

\* The admin's withdrawal of the bound pair's liquidity token has been
\* refused.
C20_Witness ==
    /\ resp = [op |-> "withdraw_token", err |-> "Unauthorized: not allowed to withdraw LP"]
    /\ tstore.liquidity_pair /= Unbound

(***************************************************************************)
(* Administration                                                          *)
(***************************************************************************)
\* The accounts and contracts that may send a message.
Senders == Users \cup {TokenAddr, TreasuryAddr, PairContract}

\* The results of the token's admin operations called by s.
TokenAdminResults(s) ==
    {set_tax_rate(token, s, rt[1], rt[2], rt[3]) : rt \in RateInputs}
    \cup {set_pairlist(token, s, p[1], p[2]) : p \in PairlistInputs}
    \cup {migrate_treasury(token, s)}

\* The results of the treasury's admin operations called by s.
TreasuryAdminResults(s) ==
    {set_liquidity_pair(tstore, s, p[1], p[2]) : p \in LiquidityPairInputs}
    \cup {set_reflection_pair(tstore, s, p[1], p[2]) : p \in ReflectionPairInputs}
    \cup {set_min_liquify_amt(tstore, s, a) : a \in MinLiquifyInputs}
    \cup {withdraw_token(token, tstore, s, t) : t \in WithdrawInputs}

\* The call failed, emitted nothing and both stores are as before it.
Refused(r) ==
    /\ ~r.ok
    /\ r.msgs = <<>>
    /\ Outcome(r, TxBase) = [token |-> token, tstore |-> tstore]

(***************************************************************************)
(* C21: every admin operation of the token (set_tax_rate, set_pairlist,    *)
(* migrate_treasury) and of the treasury (set_liquidity_pair,              *)
(* set_reflection_pair, set_min_liquify_amt, withdraw_token) called by a   *)
(* sender that is not the stored admin fails and leaves rates, registry,   *)
(* bindings, min_liquify_amt and balances as they were; the stored admin   *)
(* of each contract is the one of its instantiation in every state.        *)
(***************************************************************************)
C21_OnlyAdminAdministers ==
    /\ token.admin = Admin
    /\ tstore.admin = Admin
    /\ Idle =>
        \A s \in Senders :
            /\ s /= token.admin => \A r \in TokenAdminResults(s) : Refused(r)
            /\ s /= tstore.admin => \A r \in TreasuryAdminResults(s) : Refused(r)

\* An account other than the admin has just been refused set_tax_rate, and
\* the rates the admin set before are in place.
C21_Witness ==
    /\ resp = [op |-> "set_tax_rate", err |-> "Unauthorized: not admin"]
    /\ token.tax_rate > 0
    /\ tstore.liquidity_pair /= Unbound

(***************************************************************************)
(* Rates                                                                   *)
(***************************************************************************)
Rates(tk) == <<tk.tax_rate, tk.reflection_rate, tk.burn_rate>>

RatesValid(tk) ==
    /\ tk.tax_rate <= DecimalOne
    /\ tk.reflection_rate + tk.burn_rate <= DecimalOne

(***************************************************************************)
(* C22: in every reachable state of the token tax_rate <= 1 and            *)
(* reflection_rate + burn_rate <= 1, and a set_tax_rate call that is       *)
(* rejected leaves the three rates as they were.                           *)
(***************************************************************************)
C22_RatesStayValid ==
    /\ RatesValid(token)
    /\ Idle =>
        \A s \in Users, rt \in RateInputs :
            LET r == set_tax_rate(token, s, rt[1], rt[2], rt[3])
            IN ~r.ok => Rates(Outcome(r, TxBase).token) = Rates(token)

\* The admin's set_tax_rate with reflection_rate + burn_rate above 1 has
\* just been rejected, and the rates set before are in place.
C22_Witness ==
    /\ resp = [op |-> "set_tax_rate",
               err |-> "addition of reflection_rate & burn_rate must be <= 1"]
    /\ token.tax_rate > 0

(***************************************************************************)
(* C23: for every amount >= 0 and every stored rates, the breakdown        *)
(* returned by query_tax has taxed_amount = floor(amount * tax_rate),      *)
(* after_tax = amount - taxed_amount, reflection_amount =                  *)
(* floor(taxed_amount * reflection_rate) and, with burn_amount =           *)
(* floor(taxed_amount * burn_rate), liquidity_amount = taxed_amount -      *)
(* reflection_amount - burn_amount; reflection_amount + burn_amount <=     *)
(* taxed_amount, and no subtraction of the computation goes below zero     *)
(* (none of them fails).                                                   *)
(***************************************************************************)
C23_BreakdownIsExact ==
    resp.op = "query_tax"
    => LET amount == Head(queue).amount
           taxes == saved
       IN \E burn_amount \in 0..amount :
             /\ IsFloorOf(taxes.taxed_amount, amount, token.tax_rate)
             /\ taxes.after_tax = amount - taxes.taxed_amount
             /\ taxes.after_tax >= 0
             /\ IsFloorOf(taxes.reflection_amount, taxes.taxed_amount, token.reflection_rate)
             /\ IsFloorOf(burn_amount, taxes.taxed_amount, token.burn_rate)
             /\ taxes.liquidity_amount =
                    taxes.taxed_amount - taxes.reflection_amount - burn_amount
             /\ taxes.reflection_amount + burn_amount <= taxes.taxed_amount
             /\ taxes.taxed_amount - taxes.reflection_amount >= 0
             /\ taxes.liquidity_amount >= 0

\* A query answered with a breakdown in which the floors lose a unit: the
\* tax and its reflection share are both rounded down.
C23_Witness ==
    /\ resp.op = "query_tax"
    /\ saved.taxed_amount * RateDen < Head(queue).amount * token.tax_rate
    /\ saved.taxed_amount > 0
    /\ saved.reflection_amount * RateDen < saved.taxed_amount * token.reflection_rate
    /\ saved.liquidity_amount > 0

(***************************************************************************)
(* The two entry points of liquify                                         *)
(***************************************************************************)
\* ExecuteMsg::Liquify {} sent by s: the dispatch passes no sender on.
DirectLiquify(s) == liquify_treasury(token, tstore)

\* ExecuteMsg::Receive carrying Cw20HookMsg::Liquify {}, sent by the token.
NotifiedLiquify == receive_cw20(token, tstore, tstore.token, "liquify")

(***************************************************************************)
(* C24: in every state, liquify invoked through the parameterless Liquify  *)
(* entry point by any sender and liquify invoked through the token's       *)
(* Receive notification with the Liquify payload return the same result:   *)
(* the same instruction list, or the same failure.                         *)
(***************************************************************************)
C24_EntryPointsAgree ==
    \A s \in Senders : DirectLiquify(s) = NotifiedLiquify

\* The token's notification has just run liquify on a treasury with both
\* pairs bound, and it returned its instruction list.
C24_Witness ==
    /\ resp = [op |-> "receive", err |-> ""]
    /\ PairsBound
    /\ NotifiedLiquify.ok

(***************************************************************************)
(* C25: a TransferEvent sent to the token by an address other than the     *)
(* token itself fails and leaves last_liquify as it was; a Receive with    *)
(* the Liquify payload sent to the treasury by an address other than the   *)
(* configured token fails with Unauthorized and emits no instruction.      *)
(***************************************************************************)
C25_ForeignTriggerRefused ==
    /\ \A s \in Senders \ {TokenAddr}, a \in Amounts :
          LET r == generate_transfer_event(token, s, now, s, TreasuryAddr, a)
          IN /\ ~r.ok
             /\ r.err = "Unauthorized: not contract"
             /\ r.msgs = <<>>
             /\ r.token.last_liquify = token.last_liquify
             /\ Idle => Outcome(r, TxBase).token.last_liquify = token.last_liquify
    /\ \A s \in Senders \ {tstore.token} :
          LET r == receive_cw20(token, tstore, s, "liquify")
          IN /\ ~r.ok
             /\ r.err = "Unauthorized"
             /\ r.msgs = <<>>
             /\ Idle => Outcome(r, TxBase) = [token |-> token, tstore |-> tstore]

\* A user's TransferEvent has just been refused at a time at which the
\* throttle would have let the token's own TransferEvent trigger liquify.
C25_Witness ==
    /\ resp = [op |-> "transfer_event", err |-> "Unauthorized: not contract"]
    /\ should_liquify(now, token.last_liquify)
    /\ token.treasury = TreasuryAddr

(***************************************************************************)
(* The provide-liquidity instruction of the plan                           *)
(***************************************************************************)
\* The positions of the provide-liquidity instructions in the returned plan.
Provides == {i \in 1..Len(queue) : queue[i].kind = "provide_liquidity"}

\* The second asset of the pair that is deposited.
DepositedQuote == tstore.liquidity_pair[2]

(***************************************************************************)
(* C26: the plan with a liquidity leg holds one provide-liquidity          *)
(* instruction, shaped by the type of the second asset of the liquidity    *)
(* pair: for a native coin its funds are the simulated quote amount in     *)
(* that denom; for a token it has no funds and the instruction just before *)
(* it increases, on that token's contract, the pair contract's allowance   *)
(* by the simulated quote amount.                                          *)
(***************************************************************************)
C26_ProvideFollowsQuoteType ==
    (resp.op = "liquify_plan" /\ Split.liquidity_amt > 0)
    => /\ Cardinality(Provides) = 1
       /\ \A i \in Provides :
             /\ queue[i].to = tstore.liquidity_pair_contract
             /\ IF DepositedQuote.type = "native"
                THEN /\ queue[i].funds =
                           << [amount |-> SimulatedQuote, denom |-> DepositedQuote.id] >>
                     /\ queue[i - 1].kind = "send"
                ELSE /\ queue[i].funds = <<>>
                     /\ PlanShape(queue[i - 1]) =
                           Instruction(DepositedQuote.id, "increase_allowance",
                                       tstore.liquidity_pair_contract, SimulatedQuote,
                                       "", <<>>)

\* A plan has been returned whose provide-liquidity attaches a positive
\* simulated amount of the native quote coin.
C26_Witness ==
    /\ resp.op = "liquify_plan"
    /\ DepositedQuote.type = "native"
    /\ \E i \in Provides : queue[i].funds /= <<>> /\ queue[i].funds[1].amount > 0

(***************************************************************************)
(* The swap of the liquidity leg                                           *)
(***************************************************************************)
\* The amount of token the liquidity pair contract has received since the
\* start of the running transaction.
PairReceived == token.balances[PairContract] - saved.token.balances[PairContract]

\* The swap_amount the plan of the running transaction was sized with.
SimulatedSwap ==
    liquify_split(saved.token.balances[TreasuryAddr], saved.token.reflection_rate,
                  saved.token.burn_rate).liquidity_amt \div 2

Emitted(m, k) == {Result(m).msgs[i] : i \in {j \in 1..Len(Result(m).msgs) :
                                                 Result(m).msgs[j].kind = k}}

\* What the call m credits to its recipient.
Delivered(m) ==
    IF TaxedBranch(m) THEN m.amount - MulFloor(m.amount, token.tax_rate) ELSE m.amount

C29_SupplyIsConserved ==
    /\ Supply(token.balances) = InitialSupply
    /\ \A m \in TransferCalls :
          /\ Result(m).ok => Supply(Result(m).token.balances) = Supply(token.balances)
          /\ Supply(After(m).balances) = InitialSupply

\* A taxed transfer_from has just succeeded and its TransferEvent is next to
\* run; the treasury and the admin both hold tokens.
C29_Witness ==
    /\ resp = [op |-> "transfer_from", err |-> ""]
    /\ token.balances[TreasuryAddr] > 0
    /\ token.balances[Admin] > 0
    /\ ~Idle /\ Head(queue).kind = "transfer_event"

(***************************************************************************)
(* The history of last_liquify                                             *)
(***************************************************************************)
\* A TransferEvent the token sent to itself.
SelfSent(m) == m.kind = "transfer_event" /\ m.sender = TokenAddr

\* last_liquify as committed before the running transaction.
Committed == TxBase.token.last_liquify

(***************************************************************************)
(* C30: last_liquify never decreases: inside a transaction it is at least  *)
(* the committed value, and what a step commits or reverts to is at least  *)
(* that value; only a TransferEvent sent by the token itself changes it;   *)
(* a new value is at least 2 above the one it replaces, and never above    *)
(* the block time.                                                         *)
(***************************************************************************)
C30_LastLiquifyAdvancesByTwo ==
    /\ Committed <= token.last_liquify
    /\ token.last_liquify <= now
    /\ token.last_liquify /= Committed => token.last_liquify >= Committed + 2
    /\ \A m \in ChainCalls :
          LET r == StepResult(m)
          IN /\ r.ok => \/ r.token.last_liquify = token.last_liquify
                        \/ /\ SelfSent(m)
                           /\ r.token.last_liquify >= token.last_liquify + 2
             /\ Outcome(r, TxBase).token.last_liquify >= Committed
    /\ Idle => \A s \in Senders : \A r \in TokenAdminResults(s) :
                  r.token.last_liquify = token.last_liquify

\* A transaction whose TransferEvent moved last_liquify has been committed.
C30_Witness ==
    /\ Idle
    /\ resp.err = ""
    /\ token.last_liquify >= 2
    /\ Len(triggers) >= 1
    /\ triggers[Len(triggers)].fired

(***************************************************************************)
(* The unset treasury address                                              *)
(***************************************************************************)
\* The results of every call the token can handle in the current state.
TokenResults ==
    {Result(m) : m \in TransferCalls}
    \cup {Trigger(m) : m \in TriggerCalls}
    \cup {execute_increase_allowance(token, m.sender, m.recipient, m.amount) :
             m \in {n \in Incoming(IncreaseAllowanceMsgs) :
                       n.to = TokenAddr /\ n.kind = "increase_allowance"}}
    \cup UNION {TokenAdminResults(s) : s \in Users}

\* The call passes every check a transfer makes other than the one on the
\* treasury address: amount, recipient, allowance and funds.
OtherwiseValid(m) ==
    /\ Delegated(m) \/ m.amount > 0
    /\ addr_validate(m.recipient)
    /\ AllowanceCovers(m)
    /\ token.balances[Debited(m)] >= m.amount

(***************************************************************************)
(* C31: no operation of the token writes the treasury address.  While it   *)
(* is unset, every transfer operation whose sender (the spender of a       *)
(* delegated one) or recipient is flagged in the pair registry fails, on   *)
(* the validation of the treasury address when nothing else is wrong with  *)
(* the call, and leaves balances and allowances as they were, whereas an   *)
(* otherwise valid transfer between unflagged addresses succeeds.          *)
(***************************************************************************)
C31_UnsetTreasuryBlocksTaxed ==
    /\ token.treasury = TxBase.token.treasury
    /\ \A r \in TokenResults : r.token.treasury = token.treasury
    /\ token.treasury = NoAddr =>
          \A m \in TransferCalls :
              IF Registered(m.sender) \/ Registered(m.recipient)
              THEN /\ ~Result(m).ok
                   /\ OtherwiseValid(m) => Result(m).err = "InvalidAddress: treasury"
                   /\ After(m).balances = TxBase.token.balances
                   /\ After(m).allowances = TxBase.token.allowances
              ELSE OtherwiseValid(m) => Result(m).ok

\* With the treasury address unset, the admin's transfer_from out of the
\* user's balance has just failed on the treasury address, and the
\* allowance it had deducted is still there.
C31_Witness ==
    /\ token.treasury = NoAddr
    /\ resp = [op |-> "transfer_from", err |-> "InvalidAddress: treasury"]
    /\ token.allowances[<<User, Admin>>] >= 1
    /\ token.balances[User] = InitialSupply

(***************************************************************************)
(* The pair registry                                                       *)
(***************************************************************************)
\* The results of the admin's set_pairlist calls.
PairlistWrites == {set_pairlist(token, token.admin, p[1], p[2]) : p \in PairlistInputs}

\* Every entry of registry p is an entry of registry q.
KeepsEntries(p, q) == DOMAIN p \subseteq DOMAIN q

(***************************************************************************)
(* C32: right after instantiation the pair registry holds one entry, the   *)
(* admin flagged true; while the admin is flagged, every transfer          *)
(* operation sent by or to the admin takes the taxed branch; only a        *)
(* set_pairlist call of the admin changes an entry, and no entry is ever   *)
(* removed.                                                                *)
(***************************************************************************)
C32_RegistryStartsWithAdmin ==
    /\ resp.op = "instantiate" => token.pairlist = [a \in {token.admin} |-> TRUE]
    /\ KeepsEntries(TxBase.token.pairlist, token.pairlist)
    /\ token.admin \in DOMAIN token.pairlist
    /\ \A r \in TokenResults :
          /\ KeepsEntries(token.pairlist, r.token.pairlist)
          /\ r \notin PairlistWrites => r.token.pairlist = token.pairlist
    /\ token.pairlist[token.admin] =>
          \A m \in TransferCalls :
              (m.sender = token.admin \/ m.recipient = token.admin)
              => /\ ReachesBranch(m) => TaxedBranch(m)
                 /\ OtherwiseValid(m) => ReachesBranch(m)

\* The admin has cleared their own flag: the entry is still in the registry,
\* next to the one added for user.
C32_Witness ==
    /\ resp = [op |-> "set_pair", err |-> ""]
    /\ token.pairlist[Admin] = FALSE
    /\ User \in DOMAIN token.pairlist

====
